---- MODULE Spec2Model ----
(***************************************************************************)
(* Model of crates/egui/src/viewport.rs (ViewportBuilder) and              *)
(* crates/egui/src/widgets/plot/axis.rs (AxisHints, AxisWidget).           *)
(*                                                                         *)
(* Three specifications share the module:                                  *)
(*   SpecViewport   ViewportBuilder::new / empty / with_* and the merge of *)
(*                  a delta builder into a stored one;                     *)
(*   SpecFormatter  AxisHints::default_formatter as a function of its      *)
(*                  inputs;                                                *)
(*   Spec           AxisHints builder, AxisWidget::new and AxisWidget::ui. *)
(*                                                                         *)
(* Option<T> is a sequence of length at most one: None is <<>>, Some(v) is *)
(* <<v>>.                                                                  *)
(***************************************************************************)
EXTENDS Integers, Sequences, FiniteSets, TLC

VARIABLES
    builder,      \* the ViewportBuilder under construction (a record), or NoBuilder
    vb_ctor,      \* "new" | "empty" | "none": the constructor that made builder
    vb_set,       \* names of the fields a with_* setter was applied to since the constructor
    vb_op,        \* the last viewport operation: [name, field, arg, before]
    merged,       \* result of the last merge of a delta into builder: <<>> or <<[base, delta, out]>>
    fmt_in,       \* input of default_formatter: <<>> or <<[tick, max_digits]>>
    fmt_out,      \* <<>> before the call, <<[text, branch, num]>> after it
    hints,        \* the AxisHints being configured: <<>> or <<record>>
    thick,        \* result of the last AxisHints::thickness call on hints: <<>> or <<f32>>
    widget,       \* the AxisWidget of the frame: <<>> or <<record>>
    frame,        \* outcome of AxisWidget::ui: <<>> or <<record>>
    panicked      \* <<>>, or <<[fn, AXIS]>> once an unreachable!() arm of fn was reached

vbVars  == <<builder, vb_ctor, vb_set, vb_op, merged>>
fmtVars == <<fmt_in, fmt_out>>
axVars  == <<hints, thick, widget, frame, panicked>>
vars    == <<builder, vb_ctor, vb_set, vb_op, merged, fmt_in, fmt_out,
             hints, thick, widget, frame, panicked>>

None    == <<>>
Some(v) == <<v>>

(***************************************************************************)
(*                        viewport.rs: ViewportBuilder                     *)
(***************************************************************************)

\* Bound: number of with_* setters chained on one builder.
MaxSetters == 2

\* Input values the setters are called with.
Ids      == {"vp1", "vp2"}
Titles   == {"My app", "Other"}
Vec2s    == {[x |-> 640, y |-> 480]}
Pos2s    == {[x |-> 10, y |-> 20]}
Icons    == {"icon"}
Names    == {<<"app", "instance">>}
OptOf(S) == {None} \cup {Some(v) : v \in S}

NoBuilder == [id |-> "none"]

\* The names of the Option-wrapped fields of the struct.
OptionalFields ==
    {"name", "position", "inner_size", "fullscreen", "maximized", "resizable",
     "transparent", "decorations", "icon", "active", "visible", "title_hidden",
     "titlebar_transparent", "fullsize_content_view", "min_inner_size",
     "max_inner_size", "drag_and_drop", "close_button", "minimize_button",
     "maximize_button", "hittest"}

\* All fields of the struct.
ViewportBuilder == {"id", "title"} \cup OptionalFields

\* ViewportBuilder::new
ViewportBuilder_new(id) ==
    [id |-> id,
     title |-> "Dummy egui viewport",
     name |-> None,
     position |-> None,
     inner_size |-> Some(Some([x |-> 300, y |-> 200])),
     fullscreen |-> None,
     maximized |-> None,
     resizable |-> Some(TRUE),
     transparent |-> Some(TRUE),
     decorations |-> Some(TRUE),
     icon |-> None,
     active |-> Some(TRUE),
     visible |-> Some(TRUE),
     title_hidden |-> None,
     titlebar_transparent |-> None,
     fullsize_content_view |-> None,
     min_inner_size |-> None,
     max_inner_size |-> None,
     drag_and_drop |-> Some(TRUE),
     close_button |-> Some(TRUE),
     minimize_button |-> Some(TRUE),
     maximize_button |-> Some(TRUE),
     hittest |-> Some(TRUE)]

\* ViewportBuilder::empty
ViewportBuilder_empty(id) ==
    [id |-> id,
     title |-> "Dummy egui viewport",
     name |-> None,
     position |-> None,
     inner_size |-> None,
     fullscreen |-> None,
     maximized |-> None,
     resizable |-> None,
     transparent |-> None,
     decorations |-> None,
     icon |-> None,
     active |-> None,
     visible |-> None,
     title_hidden |-> None,
     titlebar_transparent |-> None,
     fullsize_content_view |-> None,
     min_inner_size |-> None,
     max_inner_size |-> None,
     drag_and_drop |-> None,
     close_button |-> None,
     minimize_button |-> None,
     maximize_button |-> None,
     hittest |-> None]

\* The with_* setters, each as the function of (self, argument) the code computes.
with_title(self, title)                == [self EXCEPT !.title = title]
with_decorations(self, decorations)    == [self EXCEPT !.decorations = Some(decorations)]
with_fullscreen(self, fullscreen)      == [self EXCEPT !.fullscreen = Some(fullscreen)]
with_maximized(self, maximized)        == [self EXCEPT !.maximized = Some(maximized)]
with_resizable(self, resizable)        == [self EXCEPT !.resizable = Some(resizable)]
with_transparent(self, transparent)    == [self EXCEPT !.transparent = Some(transparent)]
with_window_icon(self, icon)           == [self EXCEPT !.icon = Some(icon)]
with_active(self, active)              == [self EXCEPT !.active = Some(active)]
with_visible(self, visible)            == [self EXCEPT !.visible = Some(visible)]
with_title_hidden(self, title_hidden)  == [self EXCEPT !.title_hidden = Some(title_hidden)]
with_titlebar_transparent(self, value) == [self EXCEPT !.titlebar_transparent = Some(value)]
with_fullsize_content_view(self, value) == [self EXCEPT !.fullsize_content_view = Some(value)]
with_inner_size(self, value)           == [self EXCEPT !.inner_size = Some(value)]
with_min_inner_size(self, value)       == [self EXCEPT !.min_inner_size = Some(value)]
with_max_inner_size(self, value)       == [self EXCEPT !.max_inner_size = Some(value)]
with_close_button(self, value)         == [self EXCEPT !.close_button = Some(value)]
with_minimize_button(self, value)      == [self EXCEPT !.minimize_button = Some(value)]
with_maximize_button(self, value)      == [self EXCEPT !.maximize_button = Some(value)]
with_drag_and_drop(self, value)        == [self EXCEPT !.drag_and_drop = Some(value)]
with_position(self, value)             == [self EXCEPT !.position = Some(value)]
with_name(self, id, instance)          == [self EXCEPT !.name = Some(<<id, instance>>)]
with_hittest(self, value)              == [self EXCEPT !.hittest = Some(value)]

\* Merge of a delta builder into a stored builder b, as the external viewport
\* manager applies it: an Option field of the delta that is Some replaces b's,
\* one that is None keeps b's. title is a plain String in the struct, so the
\* delta always carries a title and it is applied; id names the viewport and
\* stays b's.
Merge(b, delta) ==
    [f \in ViewportBuilder |->
        IF f = "id" THEN b.id
        ELSE IF f = "title" THEN delta.title
        ELSE IF delta[f] = None THEN b[f] ELSE delta[f]]

\* ---- actions ----

\* A constructor call starts a fresh builder.
Construct(ctor, b) ==
    /\ builder' = b
    /\ vb_ctor' = ctor
    /\ vb_set' = {}
    /\ vb_op' = [name |-> ctor, field |-> "none", arg |-> None, before |-> NoBuilder]
    /\ merged' = None
    /\ UNCHANGED <<fmtVars, axVars>>

VbNew   == \E id \in Ids : Construct("new", ViewportBuilder_new(id))
VbEmpty == \E id \in Ids : Construct("empty", ViewportBuilder_empty(id))

\* A setter consumes the builder and returns the changed one.
Setter(name, field, arg, b) ==
    /\ vb_ctor # "none"
    /\ Cardinality(vb_set) < MaxSetters \/ field \in vb_set
    /\ builder' = b
    /\ vb_set' = vb_set \cup {field}
    /\ vb_op' = [name |-> name, field |-> field, arg |-> arg, before |-> builder]
    /\ merged' = None
    /\ UNCHANGED <<vb_ctor, fmtVars, axVars>>

WithTitle       == \E v \in Titles : Setter("with_title", "title", v, with_title(builder, v))
WithDecorations == \E v \in BOOLEAN : Setter("with_decorations", "decorations", v, with_decorations(builder, v))
WithFullscreen  == \E v \in BOOLEAN : Setter("with_fullscreen", "fullscreen", v, with_fullscreen(builder, v))
WithMaximized   == \E v \in BOOLEAN : Setter("with_maximized", "maximized", v, with_maximized(builder, v))
WithResizable   == \E v \in BOOLEAN : Setter("with_resizable", "resizable", v, with_resizable(builder, v))
WithTransparent == \E v \in BOOLEAN : Setter("with_transparent", "transparent", v, with_transparent(builder, v))
WithWindowIcon  == \E v \in OptOf(Icons) : Setter("with_window_icon", "icon", v, with_window_icon(builder, v))
WithActive      == \E v \in BOOLEAN : Setter("with_active", "active", v, with_active(builder, v))
WithVisible     == \E v \in BOOLEAN : Setter("with_visible", "visible", v, with_visible(builder, v))
WithTitleHidden == \E v \in BOOLEAN : Setter("with_title_hidden", "title_hidden", v, with_title_hidden(builder, v))
WithTitlebarTransparent ==
    \E v \in BOOLEAN : Setter("with_titlebar_transparent", "titlebar_transparent", v,
                              with_titlebar_transparent(builder, v))
WithFullsizeContentView ==
    \E v \in BOOLEAN : Setter("with_fullsize_content_view", "fullsize_content_view", v,
                              with_fullsize_content_view(builder, v))
WithInnerSize    == \E v \in OptOf(Vec2s) : Setter("with_inner_size", "inner_size", v, with_inner_size(builder, v))
WithMinInnerSize == \E v \in OptOf(Vec2s) : Setter("with_min_inner_size", "min_inner_size", v, with_min_inner_size(builder, v))
WithMaxInnerSize == \E v \in OptOf(Vec2s) : Setter("with_max_inner_size", "max_inner_size", v, with_max_inner_size(builder, v))
WithCloseButton    == \E v \in BOOLEAN : Setter("with_close_button", "close_button", v, with_close_button(builder, v))
WithMinimizeButton == \E v \in BOOLEAN : Setter("with_minimize_button", "minimize_button", v, with_minimize_button(builder, v))
WithMaximizeButton == \E v \in BOOLEAN : Setter("with_maximize_button", "maximize_button", v, with_maximize_button(builder, v))
WithDragAndDrop    == \E v \in BOOLEAN : Setter("with_drag_and_drop", "drag_and_drop", v, with_drag_and_drop(builder, v))
WithPosition == \E v \in OptOf(Pos2s) : Setter("with_position", "position", v, with_position(builder, v))
WithName     == \E v \in Names : Setter("with_name", "name", v, with_name(builder, v[1], v[2]))
WithHittest  == \E v \in BOOLEAN : Setter("with_hittest", "hittest", v, with_hittest(builder, v))

\* The deltas the viewport manager is handed in the model: the "no change"
\* builder and two one-setter deltas.
Deltas ==
    {ViewportBuilder_empty(id) : id \in Ids}
    \cup {with_visible(ViewportBuilder_empty(id), FALSE) : id \in Ids}
    \cup {with_title(ViewportBuilder_empty(id), "Other") : id \in Ids}

\* The viewport manager merges a delta into the stored builder.
MergeDelta ==
    /\ vb_ctor # "none"
    /\ \E d \in Deltas :
         merged' = Some([base |-> builder, delta |-> d, out |-> Merge(builder, d)])
    /\ UNCHANGED <<builder, vb_ctor, vb_set, vb_op, fmtVars, axVars>>

VbIdle ==
    /\ builder = NoBuilder
    /\ vb_ctor = "none"
    /\ vb_set = {}
    /\ vb_op = [name |-> "none", field |-> "none", arg |-> None, before |-> NoBuilder]
    /\ merged = None

FmtIdle ==
    /\ fmt_in = None
    /\ fmt_out = None

AxIdle ==
    /\ hints = None
    /\ thick = None
    /\ widget = None
    /\ frame = None
    /\ panicked = None

InitViewport == VbIdle /\ FmtIdle /\ AxIdle

NextViewport ==
    \/ VbNew \/ VbEmpty
    \/ WithTitle \/ WithDecorations \/ WithFullscreen \/ WithMaximized
    \/ WithResizable \/ WithTransparent \/ WithWindowIcon \/ WithActive
    \/ WithVisible \/ WithTitleHidden \/ WithTitlebarTransparent
    \/ WithFullsizeContentView \/ WithInnerSize \/ WithMinInnerSize
    \/ WithMaxInnerSize \/ WithCloseButton \/ WithMinimizeButton
    \/ WithMaximizeButton \/ WithDragAndDrop \/ WithPosition \/ WithName
    \/ WithHittest
    \/ MergeDelta

SpecViewport == InitViewport /\ [][NextViewport]_vars

(***************************************************************************)
(*              plot/axis.rs: AxisHints::default_formatter                 *)
(*                                                                         *)
(* An f64 is modelled as a decimal number [kind, neg, m, e]: the value     *)
(* (-1)^neg * m * 10^e with m not divisible by 10 (m = 0 has e = 0), or    *)
(* NaN or an infinity. Formatting and parsing work on its decimal digits,  *)
(* as Rust's shortest-representation float formatting does. A text is a    *)
(* sequence of one-character strings.                                      *)
(***************************************************************************)

\* Bounds of the formatter's inputs.
MaxDigits  == 5
MaxTickExp == 12

RECURSIVE Pow10(_)
Pow10(k) == IF k = 0 THEN 1 ELSE 10 * Pow10(k - 1)

RECURSIVE DigitsOf(_)
\* The decimal digits of a natural number, most significant first.
DigitsOf(n) == IF n < 10 THEN <<n>> ELSE Append(DigitsOf(n \div 10), n % 10)

Zeros(k) == [i \in 1..k |-> 0]

DigitChar(d) == <<"0", "1", "2", "3", "4", "5", "6", "7", "8", "9">>[d + 1]
DigitChars(ds) == [i \in 1..Len(ds) |-> DigitChar(ds[i])]

\* Display of a machine integer (used for the exponent).
IntChars(n) == IF n < 0 THEN <<"-">> \o DigitChars(DigitsOf(-n)) ELSE DigitChars(DigitsOf(n))

RECURSIVE StripZeros(_)
\* A digit sequence without its trailing zeros (one digit is always kept).
StripZeros(ds) ==
    IF Len(ds) > 1 /\ ds[Len(ds)] = 0 THEN StripZeros(SubSeq(ds, 1, Len(ds) - 1)) ELSE ds

RECURSIVE Normalize(_, _, _)
\* The decimal number (-1)^neg * m * 10^e in normal form.
Normalize(neg, m, e) ==
    IF m = 0 THEN [kind |-> "num", neg |-> neg, m |-> 0, e |-> 0]
    ELSE IF m % 10 = 0 THEN Normalize(neg, m \div 10, e + 1)
    ELSE [kind |-> "num", neg |-> neg, m |-> m, e |-> e]

NaN         == [kind |-> "nan", neg |-> FALSE, m |-> 0, e |-> 0]
Infinity(n) == [kind |-> "inf", neg |-> n, m |-> 0, e |-> 0]

\* Exponent of the leading digit: |x| = d1.d2d3... * 10^SciExp(x).
SciExp(x) == x.e + Len(DigitsOf(x.m)) - 1

\* tick.abs() > 10.0_f64.powf(max_digits as f64)
AbsGtPow10(x, d) ==
    \/ x.kind = "inf"
    \/ /\ x.kind = "num"
       /\ x.m # 0
       /\ SciExp(x) > d \/ (SciExp(x) = d /\ x.m # 1)

\* tick.abs() < 10.0_f64.powf(-(max_digits as f64))
AbsLtPow10Neg(x, d) ==
    /\ x.kind = "num"
    /\ x.m = 0 \/ SciExp(x) < -d

\* tick != 0.0 (NaN differs from everything; -0.0 equals 0.0)
NonZero(x) == x.kind # "num" \/ x.m # 0

\* isize::MAX and -isize::MIN of a 64-bit target, as digits.
ISIZE_MAX == <<9, 2, 2, 3, 3, 7, 2, 0, 3, 6, 8, 5, 4, 7, 7, 5, 8, 0, 7>>
ISIZE_MIN == <<9, 2, 2, 3, 3, 7, 2, 0, 3, 6, 8, 5, 4, 7, 7, 5, 8, 0, 8>>

\* a > b for two digit sequences without leading zeros.
DigitsGt(a, b) ==
    \/ Len(a) > Len(b)
    \/ /\ Len(a) = Len(b)
       /\ \E i \in 1..Len(a) :
            /\ a[i] > b[i]
            /\ \A j \in 1..(i - 1) : a[j] = b[j]

\* `tick as isize`: truncation towards zero, saturating at the ends of isize,
\* NaN to 0. The result is a big integer [neg, digits].
as_isize(x) ==
    IF x.kind = "nan" THEN [neg |-> FALSE, digits |-> <<0>>]
    ELSE IF x.kind = "inf"
    THEN [neg |-> x.neg, digits |-> IF x.neg THEN ISIZE_MIN ELSE ISIZE_MAX]
    ELSE LET limit == IF x.neg THEN ISIZE_MIN ELSE ISIZE_MAX
             ds == IF x.e >= 0 THEN
                       (IF x.m = 0 THEN <<0>> ELSE DigitsOf(x.m) \o Zeros(x.e))
                   ELSE IF -x.e > 9 THEN <<0>>
                   ELSE DigitsOf(x.m \div Pow10(-x.e))
         IN  IF DigitsGt(ds, limit) THEN [neg |-> x.neg, digits |-> limit]
             ELSE [neg |-> x.neg /\ ds # <<0>>, digits |-> ds]

\* d1[.d2d3...]e<exp>, with a sign in front ("{:+e}").
SciChars(neg, ds, exp) ==
    <<IF neg THEN "-" ELSE "+">>
    \o <<DigitChar(ds[1])>>
    \o (IF Len(ds) > 1 THEN <<".">> \o DigitChars(SubSeq(ds, 2, Len(ds))) ELSE <<>>)
    \o <<"e">> \o IntChars(exp)

\* format!("{:+e}", n) of an isize: the digits without trailing zeros.
fmt_LowerExp_isize(n) == SciChars(n.neg, StripZeros(n.digits), Len(n.digits) - 1)

\* format!("{:+e}", x) of an f64.
fmt_LowerExp_f64(x) ==
    IF x.kind = "nan" THEN <<"N", "a", "N">>
    ELSE IF x.kind = "inf" THEN <<IF x.neg THEN "-" ELSE "+">> \o <<"i", "n", "f">>
    ELSE SciChars(x.neg, DigitsOf(x.m), IF x.m = 0 THEN 0 ELSE SciExp(x))

\* format!("{}", x) of an f64: plain decimal digits, never an exponent.
fmt_Display_f64(x) ==
    IF x.kind = "nan" THEN <<"N", "a", "N">>
    ELSE IF x.kind = "inf" THEN (IF x.neg THEN <<"-">> ELSE <<>>) \o <<"i", "n", "f">>
    ELSE LET ds == DigitsOf(x.m)
             n  == Len(ds)
             body == IF x.e >= 0 THEN DigitChars(IF x.m = 0 THEN ds ELSE ds \o Zeros(x.e))
                     ELSE IF n > -x.e
                     THEN DigitChars(SubSeq(ds, 1, n + x.e)) \o <<".">>
                          \o DigitChars(SubSeq(ds, n + x.e + 1, n))
                     ELSE <<"0", ".">> \o DigitChars(Zeros(-x.e - n)) \o DigitChars(ds)
         IN  (IF x.neg THEN <<"-">> ELSE <<>>) \o body

\* emath::round_to_decimals: format!("{:.*}", decimal_places, value).parse(),
\* i.e. the value rounded to decimal_places decimals, ties to even.
round_to_decimals(x, decimal_places) ==
    IF x.kind # "num" \/ x.e >= -decimal_places THEN x
    ELSE LET k == -decimal_places - x.e
         IN  IF k > 9 THEN Normalize(x.neg, 0, 0)
             ELSE LET q == x.m \div Pow10(k)
                      r == x.m % Pow10(k)
                      up == 2 * r > Pow10(k) \/ (2 * r = Pow10(k) /\ q % 2 = 1)
                  IN  Normalize(x.neg, IF up THEN q + 1 ELSE q, -decimal_places)

\* default_formatter without the `tick != 0.0` test of its second branch.
default_formatter_no_zero_test(tick, max_digits, range) ==
    IF AbsGtPow10(tick, max_digits)
    THEN LET tick_rounded == as_isize(tick)
         IN  [text |-> fmt_LowerExp_isize(tick_rounded), branch |-> "large",
              num |-> tick_rounded]
    ELSE LET tick_rounded == round_to_decimals(tick, max_digits)
         IN  IF AbsLtPow10Neg(tick, max_digits)
             THEN [text |-> fmt_LowerExp_f64(tick_rounded), branch |-> "small",
                   num |-> tick_rounded]
             ELSE [text |-> fmt_Display_f64(tick_rounded), branch |-> "plain",
                   num |-> tick_rounded]

\* AxisHints::default_formatter. The result records the text returned, the
\* return statement taken and the number that was handed to format!.
default_formatter(tick, max_digits, range) ==
    IF AbsGtPow10(tick, max_digits)
    THEN LET tick_rounded == as_isize(tick)
         IN  [text |-> fmt_LowerExp_isize(tick_rounded), branch |-> "large",
              num |-> tick_rounded]
    ELSE LET tick_rounded == round_to_decimals(tick, max_digits)
         IN  IF AbsLtPow10Neg(tick, max_digits) /\ NonZero(tick)
             THEN [text |-> fmt_LowerExp_f64(tick_rounded), branch |-> "small",
                   num |-> tick_rounded]
             ELSE [text |-> fmt_Display_f64(tick_rounded), branch |-> "plain",
                   num |-> tick_rounded]

\* ---- inputs ----

\* Mantissas of the ticks tried.
TickMantissas == {0, 1, 5, 12, 25, 95, 375, 99999, 123456789}

\* The decimal number is the exact value of an f64: an integer-valued one needs
\* m * 5^e below 2^53, a fraction needs 5^(-e) to divide m.
ExactF64(x) ==
    \/ x.kind # "num"
    \/ x.m = 0
    \/ x.e >= 0 /\ 10 * Len(DigitsOf(x.m)) + 7 * x.e <= 150
    \/ x.e < 0 /\ -x.e <= 9 /\ x.m % (Pow10(-x.e) \div (2 ^ (-x.e))) = 0

\* A tick on which decimal and binary arithmetic agree for this max_digits:
\* an integer beyond 2^53 is truncated exactly only when it is an f64, and a
\* tie of the decimal rounding is a tie of the f64 rounding only when the tick
\* is an f64.
Faithful(x, d) ==
    /\ x.kind = "num" /\ x.e >= 0 /\ SciExp(x) >= 15 => ExactF64(x)
    /\ x.kind = "num" /\ x.e = -d - 1 /\ x.m % 10 = 5 => ExactF64(x)

Ticks ==
    {NaN, Infinity(FALSE), Infinity(TRUE)}
    \cup {Normalize(n, m, e) : n \in BOOLEAN, m \in TickMantissas,
                               e \in (-MaxTickExp)..(MaxTickExp + 6)}

FormatterInputs ==
    {in \in [tick : Ticks, max_digits : 0..MaxDigits] : Faithful(in.tick, in.max_digits)}

\* ---- actions ----

CallDefaultFormatter ==
    /\ fmt_in # None
    /\ fmt_out = None
    /\ fmt_out' = Some(default_formatter(fmt_in[1].tick, fmt_in[1].max_digits, <<0, 0>>))
    /\ UNCHANGED <<fmt_in, vbVars, axVars>>

InitFormatter ==
    /\ VbIdle /\ AxIdle
    /\ fmt_in \in {Some(in) : in \in FormatterInputs}
    /\ fmt_out = None

NextFormatter == CallDefaultFormatter

SpecFormatter == InitFormatter /\ [][NextFormatter]_vars

(***************************************************************************)
(*                 plot/axis.rs: AxisHints and AxisWidget                  *)
(*                                                                         *)
(* Screen lengths: an f32 is a whole number of 1/8 points, an f64 a whole  *)
(* number of 1/64 points, so that `as f32` loses precision as it does in   *)
(* the code. A function with an unreachable!() arm returns Ok(value) or    *)
(* Unreachable.                                                            *)
(***************************************************************************)

X_AXIS == 0
Y_AXIS == 1
LINE_HEIGHT == 12
MIN_TEXT_SPACING == 20
FULL_CONTRAST_SPACING == 40

\* Bounds: the max_digits arguments tried, and the number of steps of a widget.
HintDigits == 1
MaxSteps   == 2

F32(points) == 8 * points
F64(points) == 64 * points

Ok(v)       == <<v>>
Unreachable == <<>>

Abs(n) == IF n < 0 THEN -n ELSE n

\* a / b to the nearest integer, ties to even (a >= 0, b > 0).
RoundDiv(a, b) ==
    LET q == a \div b
        r == a % b
    IN  IF 2 * r > b \/ (2 * r = b /\ q % 2 = 1) THEN q + 1 ELSE q

\* `x as f32` of an f64 length: the nearest f32, ties to even.
as_f32(x) == IF x >= 0 THEN RoundDiv(x, 8) ELSE -RoundDiv(-x, 8)

\* The f64 product of a length k and a decimal number x.
F64Mul(k, x) ==
    LET mag == IF x.e >= 0 THEN Abs(k) * x.m * Pow10(x.e)
               ELSE RoundDiv(Abs(k) * x.m, Pow10(-x.e))
    IN  IF (k < 0) # x.neg THEN -mag ELSE mag

\* impl Default for AxisHints<AXIS>
AxisHints_default(AXIS) ==
    LET label == CASE AXIS = X_AXIS -> Ok("x")
                   [] AXIS = Y_AXIS -> Ok("y")
                   [] OTHER -> Unreachable
    IN  IF label = Unreachable THEN Unreachable
        ELSE Ok([axis |-> AXIS,
                 label |-> label[1],
                 formatter |-> "default_formatter",
                 digits |-> 5,
                 placement |-> "Default"])

\* The builder methods of AxisHints.
formatter(self, fmt)     == [self EXCEPT !.formatter = fmt]
label(self, text)        == [self EXCEPT !.label = text]
max_digits(self, digits) == [self EXCEPT !.digits = digits]
placement(self, p)       == [self EXCEPT !.placement = p]

\* AxisHints::thickness without the arm of the y-axis.
thickness_no_y_arm(self) ==
    CASE self.axis = X_AXIS ->
            Ok(IF self.label = "" THEN F32(1 * LINE_HEIGHT) ELSE F32(3 * LINE_HEIGHT))
      [] OTHER -> Unreachable

\* AxisHints::thickness
thickness(self) ==
    CASE self.axis = X_AXIS ->
            Ok(IF self.label = "" THEN F32(1 * LINE_HEIGHT) ELSE F32(3 * LINE_HEIGHT))
      [] self.axis = Y_AXIS ->
            Ok(IF self.label = "" THEN F32(self.digits * LINE_HEIGHT)
               ELSE F32((self.digits + 1) * LINE_HEIGHT))
      [] OTHER -> Unreachable

\* AxisWidget::new
AxisWidget_new(h, rect) ==
    [range |-> <<0, 0>>,
     hints |-> h,
     rect |-> rect,
     transform |-> None,
     steps |-> <<>>]

\* The formatter a tick is handed to: the default one, or the caller's own fn
\* (here one that returns the empty string for every tick).
ApplyFormatter(fmt, value, digits, range) ==
    IF fmt = "default_formatter" THEN default_formatter(value, digits, range).text
    ELSE <<>>

\* ---- collaborators of ui (emath, epaint, the text layout, PlotTransform) ----

center_bottom(rect) == [x |-> (rect.min.x + rect.max.x) \div 2, y |-> rect.max.y]
center_top(rect)    == [x |-> (rect.min.x + rect.max.x) \div 2, y |-> rect.min.y]
left_center(rect)   == [x |-> rect.min.x, y |-> (rect.min.y + rect.max.y) \div 2]
right_center(rect)  == [x |-> rect.max.x, y |-> (rect.min.y + rect.max.y) \div 2]

\* The size of a laid-out text of n characters in a font.
galley_size(n, font) == [x |-> font.char_w * n, y |-> font.line_h]

\* PlotTransform::position_from_point: an affine map from values to the screen.
position_from_point(transform, point) ==
    [x |-> as_f32(transform.origin.x + F64Mul(transform.dpos_dvalue[1], point.x)),
     y |-> as_f32(transform.origin.y + F64Mul(transform.dpos_dvalue[2], point.y))]

\* emath::remap_clamp(x, from, 0.0..=1.0), as the fraction [n, d].
remap_clamp(x, from) ==
    IF x <= from[1] THEN [n |-> 0, d |-> 1]
    ELSE IF from[2] <= x THEN [n |-> 1, d |-> 1]
    ELSE [n |-> x - from[1], d |-> from[2] - from[1]]

\* Weights are whole numbers of 1/MixDen.
MixDen == 2 ^ 10

\* The integer square root.
ISqrt(n) == CHOOSE r \in 0..MixDen : r * r <= n /\ n < (r + 1) * (r + 1)

\* emath::lerp(start..=end, t) as u8, t a weight.
lerp_u8(start, end, t) == ((MixDen - t) * start + t * end) \div MixDen

\* ---- AxisWidget::ui ----

\* let angle = match AXIS { .. } with the two arms swapped.
label_angle_swapped(AXIS) ==
    CASE AXIS = X_AXIS -> Ok(-1)
      [] AXIS = Y_AXIS -> Ok(0)
      [] OTHER -> Unreachable

\* let angle = match AXIS { .. }, in quarter turns (-1 is -TAU/4).
label_angle(AXIS) ==
    CASE AXIS = X_AXIS -> Ok(0)
      [] AXIS = Y_AXIS -> Ok(-1)
      [] OTHER -> Unreachable

\* let text_pos = match self.hints.placement { .. } of the axis label; size is
\* galley.size().
label_text_pos(AXIS, p, rect, size) ==
    IF p = "Default" THEN
        CASE AXIS = X_AXIS ->
                LET pos == center_bottom(rect)
                IN  Ok([x |-> pos.x - size.x \div 2, y |-> pos.y - (size.y * 5) \div 4])
          [] AXIS = Y_AXIS ->
                LET pos == left_center(rect)
                IN  Ok([x |-> pos.x, y |-> pos.y + size.x \div 2])
          [] OTHER -> Unreachable
    ELSE
        CASE AXIS = X_AXIS ->
                LET pos == center_top(rect)
                IN  Ok([x |-> pos.x - size.x \div 2, y |-> pos.y + size.y \div 4])
          [] AXIS = Y_AXIS ->
                LET pos == right_center(rect)
                IN  Ok([x |-> pos.x - (size.y * 3) \div 2, y |-> pos.y + size.x \div 2])
          [] OTHER -> Unreachable

\* (transform.dpos_dvalue()[AXIS] * step.step_size).abs() as f32
spacing_in_points(transform, AXIS, step) ==
    as_f32(Abs(F64Mul(transform.dpos_dvalue[AXIS + 1], step.step_size)))

\* The test that skips a tick:  spacing_in_points < MIN_TEXT_SPACING.
TickSuppressed_strict(spacing) == spacing < F32(MIN_TEXT_SPACING)

\* The test that skips a tick:  spacing_in_points <= MIN_TEXT_SPACING.
TickSuppressed(spacing) == spacing <= F32(MIN_TEXT_SPACING)

\* The mix of color_from_contrast: 0.5 * contrast.sqrt().
contrast_mix(contrast) == ISqrt((MixDen * MixDen * contrast.n) \div (4 * contrast.d))

\* color_from_contrast with the contrast itself as the mix.
color_from_contrast_linear(visuals, contrast) ==
    LET bg == visuals.extreme_bg_color
        fg == visuals.fg_stroke_color
        mix == (MixDen * contrast.n) \div contrast.d
    IN  [i \in 1..3 |-> lerp_u8(bg[i], fg[i], mix)]

\* color_from_contrast, the colour as <<r, g, b>>.
color_from_contrast(visuals, contrast) ==
    LET bg == visuals.extreme_bg_color
        fg == visuals.fg_stroke_color
        mix == contrast_mix(contrast)
    IN  [i \in 1..3 |-> lerp_u8(bg[i], fg[i], mix)]

\* The text_pos of a tick label without the `- galley.size().y` of the x-axis
\* placed Opposite.
tick_text_pos_below_rect(AXIS, p, rect, transform, value, size) ==
    CASE AXIS = X_AXIS ->
            LET y == IF p = "Default" THEN rect.min.y ELSE rect.max.y
                projected_point == [x |-> value, y |-> Normalize(FALSE, 0, 0)]
            IN  Ok([x |-> position_from_point(transform, projected_point).x - size.x \div 2,
                    y |-> y])
      [] AXIS = Y_AXIS ->
            LET x == IF p = "Default" THEN rect.max.x - size.x ELSE rect.min.x
                projected_point == [x |-> Normalize(FALSE, 0, 0), y |-> value]
            IN  Ok([x |-> x,
                    y |-> position_from_point(transform, projected_point).y - size.y \div 2])
      [] OTHER -> Unreachable

\* let text_pos = match AXIS { .. } of a tick label; size is galley.size().
tick_text_pos(AXIS, p, rect, transform, value, size) ==
    CASE AXIS = X_AXIS ->
            LET y == IF p = "Default" THEN rect.min.y ELSE rect.max.y - size.y
                projected_point == [x |-> value, y |-> Normalize(FALSE, 0, 0)]
            IN  Ok([x |-> position_from_point(transform, projected_point).x - size.x \div 2,
                    y |-> y])
      [] AXIS = Y_AXIS ->
            LET x == IF p = "Default" THEN rect.max.x - size.x ELSE rect.min.x
                projected_point == [x |-> Normalize(FALSE, 0, 0), y |-> value]
            IN  Ok([x |-> x,
                    y |-> position_from_point(transform, projected_point).y - size.y \div 2])
      [] OTHER -> Unreachable

\* One iteration of `for step in self.steps`: what was computed for the i-th
\* step and, when a shape was added, the shape.
tick_label(self, env, transform, i) ==
    LET step == self.steps[i]
        AXIS == self.hints.axis
        text == ApplyFormatter(self.hints.formatter, step.value, self.hints.digits, self.range)
    IN  IF text = <<>> THEN [step |-> i, text |-> text, shape |-> None]
        ELSE LET spacing == spacing_in_points(transform, AXIS, step)
             IN  IF TickSuppressed(spacing)
                 THEN [step |-> i, text |-> text, spacing |-> spacing, shape |-> None]
                 ELSE LET line_weight ==
                              remap_clamp(spacing, <<F32(MIN_TEXT_SPACING), F32(FULL_CONTRAST_SPACING)>>)
                          line_color == color_from_contrast(env.visuals, line_weight)
                          size == galley_size(Len(text), env.font)
                          text_pos == tick_text_pos(AXIS, self.hints.placement, self.rect,
                                                    transform, step.value, size)
                      IN  [step |-> i, text |-> text, spacing |-> spacing,
                           line_weight |-> line_weight, mix |-> contrast_mix(line_weight),
                           shape |-> Some([kind |-> "tick", step |-> i, text |-> text,
                                           pos |-> text_pos[1], size |-> size,
                                           color |-> line_color, angle |-> 0])]

RECURSIVE Shapes_reversed(_)
\* The shapes of a sequence of iterations, the last iteration's first.
Shapes_reversed(ticks) ==
    IF ticks = <<>> THEN <<>>
    ELSE Shapes_reversed(Tail(ticks)) \o ticks[1].shape

RECURSIVE Shapes(_)
\* The shapes of a sequence of iterations, in order.
Shapes(ticks) ==
    IF ticks = <<>> THEN <<>>
    ELSE ticks[1].shape \o Shapes(Tail(ticks))

\* The TextShape of the axis label.
label_shape(self, env) ==
    LET AXIS == self.hints.axis
        size == galley_size(Len(self.hints.label), env.font)
        text_color == IF env.visuals.override_text_color # None
                      THEN env.visuals.override_text_color[1]
                      ELSE env.visuals.text_color
        angle == label_angle(AXIS)
        text_pos == label_text_pos(AXIS, self.hints.placement, self.rect, size)
    IN  IF angle = Unreachable \/ text_pos = Unreachable THEN Unreachable
        ELSE Ok([kind |-> "label", text |-> self.hints.label, pos |-> text_pos[1],
                 size |-> size, color |-> text_color, angle |-> angle[1]])

\* What a call of ui leaves behind: the widget and environment it ran with, the
\* response, the shapes added to the painter and the loop iterations made.
Outcome(self, env, shapes, ticks) ==
    Ok([widget |-> self, env |-> env, response |-> [rect |-> self.rect],
        shapes |-> shapes, ticks |-> ticks])

\* AxisWidget::ui that returns on a missing transform before it adds the label.
ui_return_before_label(self, env) ==
    IF ~env.visible THEN Outcome(self, env, <<>>, <<>>)
    ELSE LET shape == label_shape(self, env)
         IN  IF shape = Unreachable THEN Unreachable
             ELSE IF self.transform = None THEN Outcome(self, env, <<>>, <<>>)
             ELSE LET ticks == [i \in 1..Len(self.steps) |-> tick_label(self, env, self.transform[1], i)]
                  IN  Outcome(self, env, shape \o Shapes(ticks), ticks)

\* AxisWidget::ui
ui(self, env) ==
    IF ~env.visible THEN Outcome(self, env, <<>>, <<>>)
    ELSE LET shape == label_shape(self, env)
         IN  IF shape = Unreachable THEN Unreachable
             ELSE IF self.transform = None THEN Outcome(self, env, shape, <<>>)
             ELSE LET ticks == [i \in 1..Len(self.steps) |-> tick_label(self, env, self.transform[1], i)]
                  IN  Outcome(self, env, shape \o Shapes(ticks), ticks)

\* ---- inputs ----

\* The values of the const generic AXIS a caller can instantiate (a usize).
AxisParams == {X_AXIS, Y_AXIS, 2}

Labels     == {"", "time"}
Formatters == {"default_formatter", "blank_formatter"}
Placement  == {"Default", "Opposite"}

Rects ==
    {[min |-> [x |-> F32(0), y |-> F32(0)], max |-> [x |-> F32(400), y |-> F32(36)]],
     [min |-> [x |-> F32(40), y |-> F32(10)], max |-> [x |-> F32(100), y |-> F32(310)]]}

\* dpos_dvalue is (20 + 1/64, -40) and (30, -20) points per unit of value.
Transforms ==
    {[dpos_dvalue |-> <<F64(20) + 1, -F64(40)>>, origin |-> [x |-> F64(0), y |-> F64(300)]],
     [dpos_dvalue |-> <<F64(30), -F64(20)>>, origin |-> [x |-> F64(50), y |-> F64(200)]]}

\* GridMark { value, step_size }: (0, 0.5), (2.5, 1), (100001, 2), (-2.5, 1.5).
GridMarks ==
    {[value |-> Normalize(FALSE, 0, 0), step_size |-> Normalize(FALSE, 5, -1)],
     [value |-> Normalize(FALSE, 25, -1), step_size |-> Normalize(FALSE, 1, 0)],
     [value |-> Normalize(FALSE, 100001, 0), step_size |-> Normalize(FALSE, 2, 0)],
     [value |-> Normalize(TRUE, 25, -1), step_size |-> Normalize(FALSE, 15, -1)]}

\* ui.style().visuals of the dark and of the light theme.
Visuals ==
    {[extreme_bg_color |-> <<10, 10, 10>>, fg_stroke_color |-> <<210, 210, 210>>,
      text_color |-> <<140, 140, 140>>, override_text_color |-> None],
     [extreme_bg_color |-> <<255, 255, 255>>, fg_stroke_color |-> <<0, 0, 0>>,
      text_color |-> <<80, 80, 80>>, override_text_color |-> Some(<<255, 0, 0>>)]}

Fonts == {[char_w |-> F32(7), line_h |-> F32(14)]}

Envs == [visible : BOOLEAN, visuals : Visuals, font : Fonts]

\* ---- actions ----

AxisHintsDefault ==
    /\ panicked = None
    /\ \E AXIS \in AxisParams :
         LET h == AxisHints_default(AXIS)
         IN  /\ hints' = h
             /\ panicked' = IF h = Unreachable
                             THEN Some([fn |-> "default", AXIS |-> AXIS]) ELSE None
    /\ thick' = None
    /\ widget' = None
    /\ frame' = None
    /\ UNCHANGED <<vbVars, fmtVars>>

HintsBuild(h) ==
    /\ panicked = None
    /\ hints # None
    /\ hints' = Some(h)
    /\ thick' = None
    /\ UNCHANGED <<widget, frame, panicked, vbVars, fmtVars>>

HintsFormatter == \E f \in Formatters : HintsBuild(formatter(hints[1], f))
HintsLabel     == \E l \in Labels : HintsBuild(label(hints[1], l))
HintsMaxDigits == \E d \in 0..HintDigits : HintsBuild(max_digits(hints[1], d))
HintsPlacement == \E p \in Placement : HintsBuild(placement(hints[1], p))

Thickness ==
    /\ panicked = None
    /\ hints # None
    /\ LET t == thickness(hints[1])
       IN  /\ thick' = t
           /\ panicked' = IF t = Unreachable
                           THEN Some([fn |-> "thickness", AXIS |-> hints[1].axis]) ELSE None
    /\ UNCHANGED <<hints, widget, frame, vbVars, fmtVars>>

AxisWidgetNew ==
    /\ panicked = None
    /\ hints # None
    /\ \E rect \in Rects : widget' = Some(AxisWidget_new(hints[1], rect))
    /\ hints' = None
    /\ thick' = None
    /\ frame' = None
    /\ UNCHANGED <<panicked, vbVars, fmtVars>>

\* The plot fills in the fields of the widget before it adds it to the ui.
SetTransform ==
    /\ panicked = None
    /\ widget # None
    /\ \E t \in Transforms : widget' = Some([widget[1] EXCEPT !.transform = Some(t)])
    /\ UNCHANGED <<hints, thick, frame, panicked, vbVars, fmtVars>>

PushStep ==
    /\ panicked = None
    /\ widget # None
    /\ Len(widget[1].steps) < MaxSteps
    /\ \E g \in GridMarks :
         widget' = Some([widget[1] EXCEPT !.steps = Append(@, g)])
    /\ UNCHANGED <<hints, thick, frame, panicked, vbVars, fmtVars>>

Ui ==
    /\ panicked = None
    /\ widget # None
    /\ \E env \in Envs :
         LET out == ui(widget[1], env)
         IN  /\ frame' = out
             /\ panicked' = IF out = Unreachable
                             THEN Some([fn |-> "ui", AXIS |-> widget[1].hints.axis]) ELSE None
    /\ widget' = None
    /\ UNCHANGED <<hints, thick, vbVars, fmtVars>>

Init == VbIdle /\ FmtIdle /\ AxIdle

Next ==
    \/ AxisHintsDefault
    \/ HintsFormatter \/ HintsLabel \/ HintsMaxDigits \/ HintsPlacement
    \/ Thickness
    \/ AxisWidgetNew
    \/ SetTransform
    \/ PushStep
    \/ Ui

Spec == Init /\ [][Next]_vars

(***************************************************************************)
(*                 Properties of AxisHints and AxisWidget                  *)
(***************************************************************************)

RECURSIVE Join(_)
\* The string a text spells.
Join(cs) == IF cs = <<>> THEN "" ELSE cs[1] \o Join(Tail(cs))

Painted      == frame # None
FrameWidget  == frame[1].widget
FrameAxis    == frame[1].widget.hints.axis
FrameShapes  == frame[1].shapes
FrameTicks   == frame[1].ticks
LabelShapes  == {i \in 1..Len(FrameShapes) : FrameShapes[i].kind = "label"}
TickShapes   == {i \in 1..Len(FrameShapes) : FrameShapes[i].kind = "tick"}
\* The formatter is called once in every iteration of the loop over the steps.
FormatterCalls == Len(FrameTicks)

\* C1 as stated: for every AxisWidget, ui with transform = None emits exactly
\* one axis-label shape and no tick-label shape, and never calls the formatter.
C1_NoTransformOneLabel ==
    Painted /\ FrameWidget.transform = None =>
       /\ Cardinality(LabelShapes) = 1
       /\ Cardinality(TickShapes) = 0
       /\ FormatterCalls = 0

\* C1 as the code has it: ui with transform = None emits no tick-label shape and
\* never calls the formatter; it emits exactly one axis-label shape when the
\* allocated rect is visible and no shape at all when it is not.
C1_NoTransformOneLabelIfVisible ==
    Painted /\ FrameWidget.transform = None =>
       /\ Cardinality(TickShapes) = 0
       /\ FormatterCalls = 0
       /\ Len(FrameShapes) = (IF frame[1].env.visible THEN 1 ELSE 0)
       /\ Cardinality(LabelShapes) = Len(FrameShapes)

\* C1 happens: a widget with steps and no transform was drawn in a visible rect.
C1_Witness ==
    /\ Painted
    /\ FrameWidget.transform = None
    /\ FrameWidget.steps # <<>>
    /\ frame[1].env.visible
    /\ Cardinality(LabelShapes) = 1

\* |dpos_dvalue[AXIS] * step_size| <= points, in exact arithmetic.
ExactSpacingLeq(transform, AXIS, step, points) ==
    LET k == Abs(transform.dpos_dvalue[AXIS + 1])
        x == step.step_size
    IN  k * x.m * Pow10(IF x.e > 0 THEN x.e ELSE 0)
           <= F64(points) * Pow10(IF x.e < 0 THEN -x.e ELSE 0)

StepSpacingLeq(i, points) ==
    ExactSpacingLeq(FrameWidget.transform[1], FrameAxis, FrameWidget.steps[i], points)

StepHasShape(i) == \E j \in TickShapes : FrameShapes[j].step = i

\* C2: with a transform, a step whose on-screen spacing
\* |dpos_dvalue[AXIS] * step_size| is <= 20 (20 itself included) never gets a
\* tick-label shape, whatever the other steps are.
C2_CloseTicksSuppressed ==
    Painted /\ FrameWidget.transform # None =>
       \A i \in 1..Len(FrameWidget.steps) : StepSpacingLeq(i, 20) => ~StepHasShape(i)

\* C2 happens: a step of spacing exactly 20 with a non-empty text got no shape
\* while another step of the same widget got one.
C2_Witness ==
    /\ Painted
    /\ FrameWidget.transform # None
    /\ \E i, j \in 1..Len(FrameTicks) :
          /\ StepSpacingLeq(i, 20) /\ ~StepSpacingLeq(i, 19)
          /\ FrameTicks[i].text # <<>>
          /\ ~StepHasShape(i)
          /\ StepHasShape(j)

\* The colour of the largest contrast the code uses: half way from the
\* background-extreme colour to the foreground-stroke colour.
FullContrastColor(visuals) ==
    [c \in 1..3 |-> (visuals.extreme_bg_color[c] + visuals.fg_stroke_color[c]) \div 2]

\* The contrast (the interpolation weight) the code computes for a spacing.
ContrastAt(spacing) ==
    contrast_mix(remap_clamp(spacing, <<F32(MIN_TEXT_SPACING), F32(FULL_CONTRAST_SPACING)>>))

\* C3: an emitted tick label has the full-contrast colour whenever its spacing is
\* >= 40, and between 20 and 40 its contrast 0.5 * sqrt(remap_clamp(spacing,
\* 20..=40, 0..=1)) increases with the spacing.
C3_ContrastGrowsWithSpacing ==
    Painted =>
       \A i \in 1..Len(FrameTicks) :
          FrameTicks[i].shape # None =>
             /\ ~StepSpacingLeq(i, 20)
             /\ ~StepSpacingLeq(i, 39) /\ FrameTicks[i].spacing >= F32(FULL_CONTRAST_SPACING) =>
                   /\ FrameTicks[i].shape[1].color = FullContrastColor(frame[1].env.visuals)
                   /\ 2 * FrameTicks[i].mix = MixDen
             /\ FrameTicks[i].spacing < F32(FULL_CONTRAST_SPACING) =>
                   /\ \A s \in (F32(MIN_TEXT_SPACING) + 1)..(FrameTicks[i].spacing - 1) :
                         ContrastAt(s) < FrameTicks[i].mix
                   /\ \A s \in (FrameTicks[i].spacing + 1)..F32(FULL_CONTRAST_SPACING) :
                         FrameTicks[i].mix < ContrastAt(s)
                   /\ 0 < FrameTicks[i].mix /\ 2 * FrameTicks[i].mix < MixDen

\* C3 happens: one tick label was drawn with a spacing between 20 and 40 and
\* another with a spacing of at least 40, in the full-contrast colour.
C3_Witness ==
    /\ Painted
    /\ \E i, j \in 1..Len(FrameTicks) :
          /\ FrameTicks[i].shape # None
          /\ FrameTicks[i].spacing < F32(FULL_CONTRAST_SPACING)
          /\ FrameTicks[j].shape # None
          /\ ~StepSpacingLeq(j, 40)
          /\ FrameTicks[j].shape[1].color = FullContrastColor(frame[1].env.visuals)

\* The screen area a text shape covers, [x0, x1] x [y0, y1]: the galley's
\* rectangle at pos, turned about pos by the shape's angle (-1: a quarter turn
\* counter-clockwise, the text then runs upwards from pos).
Area(shape) ==
    IF shape.angle = 0
    THEN [x0 |-> shape.pos.x, x1 |-> shape.pos.x + shape.size.x,
          y0 |-> shape.pos.y, y1 |-> shape.pos.y + shape.size.y]
    ELSE [x0 |-> shape.pos.x, x1 |-> shape.pos.x + shape.size.y,
          y0 |-> shape.pos.y - shape.size.x, y1 |-> shape.pos.y]

\* An area mirrored across the centre line of rect that runs along the axis: the
\* horizontal one for the x-axis, the vertical one for the y-axis.
Mirrored(area, rect, AXIS) ==
    IF AXIS = X_AXIS
    THEN [area EXCEPT !.y0 = rect.min.y + rect.max.y - area.y1,
                      !.y1 = rect.min.y + rect.max.y - area.y0]
    ELSE [area EXCEPT !.x0 = rect.min.x + rect.max.x - area.x1,
                      !.x1 = rect.min.x + rect.max.x - area.x0]

OtherPlacement(p) == IF p = "Default" THEN "Opposite" ELSE "Default"

\* The label shape ui draws for the same widget with the placement swapped.
SwappedLabel ==
    label_shape([FrameWidget EXCEPT !.hints.placement = OtherPlacement(@)], frame[1].env)[1]

\* C5: for a fixed axis kind, rect and label size, swapping Default and Opposite
\* mirrors the area the axis label covers across the rect's centre line.
C5_PlacementMirrorsLabel ==
    Painted =>
       \A i \in LabelShapes :
          Area(SwappedLabel) = Mirrored(Area(FrameShapes[i]), FrameWidget.rect, FrameAxis)

\* Supporting fact for C5: the label of the x-axis is mirrored.
XAxisLabelMirrored ==
    Painted /\ FrameAxis = X_AXIS =>
       \A i \in LabelShapes :
          Area(SwappedLabel) = Mirrored(Area(FrameShapes[i]), FrameWidget.rect, FrameAxis)

\* C6: the rotation angle of the axis label depends on the axis kind only: 0 for
\* the x-axis and -TAU/4 for the y-axis, whatever the placement, the rect, the
\* label text and the transform are.
C6_AngleFollowsAxisOnly ==
    Painted =>
       \A i \in LabelShapes :
          FrameShapes[i].angle = (IF FrameAxis = X_AXIS THEN 0 ELSE -1)

\* C6 happens: the label of a y-axis placed Opposite was drawn with a transform.
C6_Witness ==
    /\ Painted
    /\ FrameAxis = Y_AXIS
    /\ FrameWidget.hints.placement = "Opposite"
    /\ FrameWidget.hints.label = "time"
    /\ FrameWidget.transform # None
    /\ \E i \in LabelShapes : FrameShapes[i].angle = -1

\* C10 as stated: no call of AxisHints::default, AxisHints::thickness or
\* AxisWidget::ui reaches an unreachable!() arm.
C10_NeverUnreachable == panicked = None

\* C10 as the code has it: AXIS is a usize, and the only call that reaches an
\* unreachable!() arm is AxisHints::<AXIS>::default() with AXIS neither X_AXIS
\* nor Y_AXIS; every AxisHints and AxisWidget there is has one of the two, and
\* thickness and ui return on them.
C10_UnreachableOnlyInDefaultOfOtherAxis ==
    /\ panicked # None =>
          panicked[1].fn = "default" /\ panicked[1].AXIS \notin {X_AXIS, Y_AXIS}
    /\ hints # None => hints[1].axis \in {X_AXIS, Y_AXIS}
    /\ widget # None => widget[1].hints.axis \in {X_AXIS, Y_AXIS}
    /\ Painted => FrameAxis \in {X_AXIS, Y_AXIS}

\* C10 happens: thickness returned on the hints of a y-axis.
C10_Witness ==
    /\ hints # None
    /\ hints[1].axis = Y_AXIS
    /\ thick # None
    /\ panicked = None

\* The value of the step a tick shape was drawn for.
ShapeValue(shape) == FrameWidget.steps[shape.step].value

\* The screen position of a value on the widget's axis (the other coordinate
\* of the projected point is 0).
ProjectedX(value) ==
    position_from_point(FrameWidget.transform[1],
                        [x |-> value, y |-> Normalize(FALSE, 0, 0)]).x
ProjectedY(value) ==
    position_from_point(FrameWidget.transform[1],
                        [x |-> Normalize(FALSE, 0, 0), y |-> value]).y

\* C11: with a transform, every emitted tick label is upright, flush against
\* the rect edge the placement selects and centred on the tick's transformed
\* coordinate. x-axis: left edge = position_from_point(value, 0).x - width/2,
\* top edge = rect.min.y under Default, bottom edge = rect.max.y under
\* Opposite. y-axis: top edge = position_from_point(0, value).y - height/2,
\* right edge = rect.max.x under Default, left edge = rect.min.x under Opposite.
C11_TickLabelFlushAndCentred ==
    Painted =>
       \A j \in TickShapes :
          LET shape == FrameShapes[j]
              left == shape.pos.x
              top == shape.pos.y
              right == shape.pos.x + shape.size.x
              bottom == shape.pos.y + shape.size.y
              rect == FrameWidget.rect
              p == FrameWidget.hints.placement
          IN  /\ FrameWidget.transform # None
              /\ shape.angle = 0
              /\ shape.size = galley_size(Len(shape.text), frame[1].env.font)
              /\ FrameAxis = X_AXIS =>
                    /\ 2 * left + shape.size.x = 2 * ProjectedX(ShapeValue(shape))
                    /\ p = "Default" => top = rect.min.y
                    /\ p = "Opposite" => bottom = rect.max.y
              /\ FrameAxis = Y_AXIS =>
                    /\ 2 * top + shape.size.y = 2 * ProjectedY(ShapeValue(shape))
                    /\ p = "Default" => right = rect.max.x
                    /\ p = "Opposite" => left = rect.min.x

\* C11 happens: the tick 2.5 of an x-axis placed Opposite was drawn in the rect
\* of height 36 with dpos_dvalue.x = 30 and origin.x = 50: "2.5" is 21 x 14
\* points, centred on x = 125 with its bottom edge on y = 36.
C11_Witness ==
    /\ Painted
    /\ FrameAxis = X_AXIS
    /\ FrameWidget.hints.placement = "Opposite"
    /\ FrameWidget.rect.max.y = F32(36)
    /\ \E j \in TickShapes :
          /\ Join(FrameShapes[j].text) = "2.5"
          /\ FrameShapes[j].size = [x |-> F32(21), y |-> F32(14)]
          /\ 2 * FrameShapes[j].pos.x = F32(2 * 125 - 21)
          /\ FrameShapes[j].pos.y = F32(36 - 14)

\* The i-th step of the drawn widget is due a tick label: its formatted text is
\* not empty and its spacing in points, the f32 the code compares, is > 20.
StepWanted(i) ==
    LET step == FrameWidget.steps[i]
    IN  /\ ApplyFormatter(FrameWidget.hints.formatter, step.value,
                          FrameWidget.hints.digits, FrameWidget.range) # <<>>
        /\ spacing_in_points(FrameWidget.transform[1], FrameAxis, step) > F32(20)

WantedSteps == {i \in 1..Len(FrameWidget.steps) : StepWanted(i)}

IsScientific(cs) == \E i \in 1..Len(cs) : cs[i] = "e"

\* |a| < |b| for two decimal numbers, by leading exponent and then digits.
MagLess(a, b) ==
    IF b.m = 0 THEN FALSE
    ELSE IF a.m = 0 THEN TRUE
    ELSE IF SciExp(a) # SciExp(b) THEN SciExp(a) < SciExp(b)
    ELSE LET da == DigitsOf(a.m)
             db == DigitsOf(b.m)
             n  == IF Len(da) > Len(db) THEN Len(da) ELSE Len(db)
         IN  DigitsGt(db \o Zeros(n - Len(db)), da \o Zeros(n - Len(da)))

PowerOfTen(k) == [kind |-> "num", neg |-> FALSE, m |-> 1, e |-> k]

\* The condition the formatter documents for scientific notation.
WantsScientific(tick, d) ==
    \/ tick.kind = "inf"
    \/ tick.kind = "num" /\ MagLess(PowerOfTen(d), tick)
    \/ tick.kind = "num" /\ MagLess(tick, PowerOfTen(-d)) /\ tick.m # 0

DigitVal(c) == CHOOSE d \in 0..9 : DigitChar(d) = c

RECURSIVE CharsToNat(_)
CharsToNat(cs) ==
    IF cs = <<>> THEN 0
    ELSE 10 * CharsToNat(SubSeq(cs, 1, Len(cs) - 1)) + DigitVal(cs[Len(cs)])

\* The number a plain decimal text ([-]digits[.digits]) denotes.
ParsePlain(cs) ==
    LET neg  == cs # <<>> /\ cs[1] = "-"
        body == IF neg THEN Tail(cs) ELSE cs
        dots == {i \in 1..Len(body) : body[i] = "."}
        dot  == IF dots = {} THEN Len(body) + 1 ELSE CHOOSE i \in dots : TRUE
        int  == SubSeq(body, 1, dot - 1)
        frac == SubSeq(body, dot + 1, Len(body))
    IN  Normalize(neg, CharsToNat(int \o frac), -Len(frac))

IsPlainDecimal(cs) ==
    /\ cs # <<>>
    /\ \A i \in 1..Len(cs) :
          cs[i] \in {DigitChar(d) : d \in 0..9} \cup {"."} \cup (IF i = 1 THEN {"-"} ELSE {})
    /\ Cardinality({i \in 1..Len(cs) : cs[i] = "."}) <= 1

\* v is tick rounded to d decimals: a multiple of 10^-d of tick's sign, at most
\* half a unit of the last decimal away from tick.
IsRoundedTo(v, tick, d) ==
    /\ v.neg = tick.neg
    /\ v.m = 0 \/ v.e >= -d
    /\ IF tick.e >= -d THEN v = tick
       ELSE LET k == -d - tick.e
                q == v.m * Pow10(v.e + d)
                diff == IF tick.m >= q * Pow10(k) THEN tick.m - q * Pow10(k)
                        ELSE q * Pow10(k) - tick.m
            IN  2 * diff <= Pow10(k)

Formatted == fmt_out # None
FmtTick   == fmt_in[1].tick
FmtDigits == fmt_in[1].max_digits
FmtText   == fmt_out[1].text

\* Whether the call was default_formatter(m * 10^e, d).
FormattedInput(m, e, d) ==
    Formatted /\ FmtTick = Normalize(FALSE, m, e) /\ FmtDigits = d

\* C4: default_formatter returns scientific notation exactly when
\* |tick| > 10^max_digits or (|tick| < 10^-max_digits and tick != 0); otherwise
\* it returns the plain decimal rendering of tick rounded to max_digits
\* decimals. With 5 digits 123.456789 gives "123.45679", 1e9 is scientific,
\* 0.0 gives "0", and a tick equal to 10^max_digits is not scientific.
C4_ScientificExactlyOutsideRange ==
    Formatted =>
       /\ IsScientific(FmtText) <=> WantsScientific(FmtTick, FmtDigits)
       /\ ~IsScientific(FmtText) /\ FmtTick.kind = "num" =>
             /\ IsPlainDecimal(FmtText)
             /\ IsRoundedTo(ParsePlain(FmtText), FmtTick, FmtDigits)
             /\ fmt_Display_f64(ParsePlain(FmtText)) = FmtText
       /\ FmtTick.kind = "nan" => Join(FmtText) = "NaN"
       /\ FormattedInput(123456789, -6, 5) => Join(FmtText) = "123.45679"
       /\ FormattedInput(1, 9, 5) => Join(FmtText) = "+1e9"
       /\ FormattedInput(0, 0, 5) => Join(FmtText) = "0"
       /\ FmtTick = Normalize(FALSE, 1, FmtDigits) => ~IsScientific(FmtText)

\* C4 happens: 123.456789 was formatted with 5 digits and rounded.
C4_Witness == FormattedInput(123456789, -6, 5) /\ Join(FmtText) = "123.45679"

FmtNum == fmt_out[1].num

\* 0 < |tick| < 10^-max_digits
SmallTick(tick, d) == tick.kind = "num" /\ tick.m # 0 /\ MagLess(tick, PowerOfTen(-d))

\* |tick| > 10^max_digits
LargeTick(tick, d) == tick.kind = "inf" \/ (tick.kind = "num" /\ MagLess(PowerOfTen(d), tick))

\* A small tick rounded to d decimals: 10^-d of the tick's sign when the tick
\* is beyond half of 10^-d, and the zero of the tick's sign otherwise.
RoundedSmall(tick, d) ==
    IF MagLess([kind |-> "num", neg |-> FALSE, m |-> 5, e |-> -d - 1], tick)
    THEN Normalize(tick.neg, 1, -d)
    ELSE Normalize(tick.neg, 0, 0)

\* The integer a finite tick of magnitude above 1 is truncated to.
Truncated(tick) ==
    [neg |-> tick.neg,
     digits |-> IF tick.e >= 0 THEN DigitsOf(tick.m) \o Zeros(tick.e)
                ELSE DigitsOf(tick.m \div Pow10(-tick.e))]

\* A big integer fits an isize.
FitsIsize(n) == ~DigitsGt(n.digits, IF n.neg THEN ISIZE_MIN ELSE ISIZE_MAX)

\* C13: the scientific output of default_formatter never shows the tick at more
\* precision than the rounding step. For 0 < |tick| < 10^-max_digits the number
\* formatted is the tick rounded to max_digits decimals, so the mantissa printed
\* is that of 0 or of +/-10^-max_digits; for |tick| > 10^max_digits the number
\* formatted is the tick truncated to an integer; both outputs start with an
\* explicit sign.
C13_SciOutputAtRoundedPrecision ==
    Formatted =>
       /\ SmallTick(FmtTick, FmtDigits) =>
             /\ FmtNum = RoundedSmall(FmtTick, FmtDigits)
             /\ FmtText[1] \in {"+", "-"}
             /\ FmtText[2] \in {"0", "1"} /\ FmtText[3] = "e"
             /\ FmtText = fmt_LowerExp_f64(FmtNum)
       /\ LargeTick(FmtTick, FmtDigits) =>
             /\ FmtTick.kind = "num"
             /\ FmtNum = Truncated(FmtTick)
             /\ FmtText[1] \in {"+", "-"}
             /\ FmtText = fmt_LowerExp_isize(FmtNum)

\* Supporting fact for C13: the statement holds for every tick whose integer
\* part fits an isize; a tick beyond that, or an infinite one, is formatted as
\* isize::MAX or isize::MIN.
SciOutputOfTicksWithinIsize ==
    Formatted =>
       /\ SmallTick(FmtTick, FmtDigits) =>
             /\ FmtNum = RoundedSmall(FmtTick, FmtDigits)
             /\ FmtText[1] \in {"+", "-"}
             /\ FmtText[2] \in {"0", "1"} /\ FmtText[3] = "e"
       /\ LargeTick(FmtTick, FmtDigits) =>
             /\ FmtText[1] \in {"+", "-"}
             /\ IF FmtTick.kind = "num" /\ FitsIsize(Truncated(FmtTick))
                THEN FmtNum = Truncated(FmtTick)
                ELSE FmtNum = [neg |-> FmtTick.neg,
                               digits |-> IF FmtTick.neg THEN ISIZE_MIN ELSE ISIZE_MAX]

\* The case that fails C13: 1.2e19 formatted with 5 digits comes out as
\* isize::MAX.
SaturatedTickFormatted ==
    /\ FormattedInput(12, 18, 5)
    /\ Join(FmtText) = "+9.223372036854775807e18"

(***************************************************************************)
(*                     Properties of ViewportBuilder                       *)
(***************************************************************************)

\* The type each field is declared with in the struct (values of different
\* types are never equal).
FieldType(f) ==
    CASE f \in {"id"} -> "Id"
      [] f \in {"title"} -> "String"
      [] f \in {"name"} -> "Option<(String, String)>"
      [] f \in {"position"} -> "Option<Option<Pos2>>"
      [] f \in {"inner_size", "min_inner_size", "max_inner_size"} -> "Option<Option<Vec2>>"
      [] f \in {"icon"} -> "Option<Option<Arc<ColorImage>>>"
      [] OTHER -> "Option<bool>"

\* The builder the constructor of the current chain returned.
Constructed ==
    IF vb_ctor = "new" THEN ViewportBuilder_new(builder.id)
    ELSE ViewportBuilder_empty(builder.id)

IsEmptyDelta(d) == d = ViewportBuilder_empty(d.id)

\* C7: merging the builder returned by ViewportBuilder::empty(id) into any
\* builder b yields exactly b, in every field, title included.
C7_EmptyIsMergeIdentity ==
    IF merged = None THEN TRUE
    ELSE IsEmptyDelta(merged[1].delta) =>
            \A f \in ViewportBuilder : merged[1].out[f] = merged[1].base[f]

\* Supporting fact for C7: the Option-wrapped fields, and id, are kept by the
\* merge of an empty delta; only title is not.
EmptyMergeKeepsOptionalFields ==
    IF merged = None THEN TRUE
    ELSE IsEmptyDelta(merged[1].delta) =>
            \A f \in OptionalFields \cup {"id"} : merged[1].out[f] = merged[1].base[f]

\* C8: each with_* setter sets exactly one optional field to Some(given value)
\* and leaves every other field, id and title included, unchanged; a field no
\* setter was applied to holds its initial value.
C8_SetterSetsOneOptionalField ==
    /\ vb_op.field # "none" =>
          \E f \in OptionalFields :
             /\ FieldType(f) = FieldType(vb_op.field)
             /\ builder[f] = Some(vb_op.arg)
             /\ \A g \in ViewportBuilder \ {f} : builder[g] = vb_op.before[g]
    /\ vb_ctor # "none" =>
          \A g \in ViewportBuilder \ vb_set : builder[g] = Constructed[g]

\* Supporting fact for C8: every setter changes at most the one field it is
\* named after, and a field no setter was applied to holds its initial value.
SetterChangesOnlyItsField ==
    /\ vb_op.field # "none" =>
          \A g \in ViewportBuilder \ {vb_op.field} : builder[g] = vb_op.before[g]
    /\ vb_op.field \in OptionalFields => builder[vb_op.field] = Some(vb_op.arg)
    /\ vb_op.field = "title" => builder.title = vb_op.arg
    /\ vb_ctor # "none" =>
          \A g \in ViewportBuilder \ vb_set : builder[g] = Constructed[g]

\* C9: a builder returned by ViewportBuilder::new carries the defaults the
\* setters document (transparent false, decorations true, resizable true,
\* visible shown, fullscreen None, title "Dummy egui viewport") until the
\* corresponding setter is applied.
C9_NewCarriesDocumentedDefaults ==
    vb_ctor = "new" =>
       /\ "transparent" \notin vb_set => builder.transparent \in {None, Some(FALSE)}
       /\ "decorations" \notin vb_set => builder.decorations = Some(TRUE)
       /\ "resizable" \notin vb_set => builder.resizable = Some(TRUE)
       /\ "visible" \notin vb_set => builder.visible = Some(TRUE)
       /\ "fullscreen" \notin vb_set => builder.fullscreen = None
       /\ "title" \notin vb_set => builder.title = "Dummy egui viewport"

\* Supporting fact for C9: every documented default but the transparency one
\* is what new() sets.
NewDefaultsButTransparent ==
    vb_ctor = "new" =>
       /\ "decorations" \notin vb_set => builder.decorations = Some(TRUE)
       /\ "resizable" \notin vb_set => builder.resizable = Some(TRUE)
       /\ "visible" \notin vb_set => builder.visible = Some(TRUE)
       /\ "fullscreen" \notin vb_set => builder.fullscreen = None
       /\ "title" \notin vb_set => builder.title = "Dummy egui viewport"
       /\ "transparent" \notin vb_set => builder.transparent = Some(TRUE)

====
